---- MODULE Spec2Model ----
(***************************************************************************)
(* Model of the text-generation controller of llama_jni.cpp: the global   *)
(* handles g_model / g_ctx / g_sampler, the cache position g_n_past, and   *)
(* the JNI entry points that load, unload, decode, sample and reset.       *)
(*                                                                         *)
(* The inference engine (llama.cpp) is an external library.  It is         *)
(* modelled by a small heap of live handles and by the outcomes its calls  *)
(* can produce: a weight load or a context creation may fail, a            *)
(* llama_decode call may return a non-zero status, and it returns 0 only   *)
(* when the batch fits into the attention cache of n_ctx cells.            *)
(***************************************************************************)
EXTENDS Integers, Sequences, FiniteSets, TLC

\* ---------------------------------------------------------------- bounds
MaxHandles == 2      \* handle values the engine can hand out, per kind
MaxTokens  == 3      \* longest token array passed to decode
SampleRange == 2     \* the sampler returns a token in 1..SampleRange
MaxCtx     == 3      \* largest contextSize passed to loadModel
MaxBatch   == 2      \* largest batch width the engine reports
MaxDraws   == 1      \* draws made from one sampler chain
MaxCalls   == 2      \* decode calls in one followed run
MaxSegs    == 2      \* segments whisper_full finalizes in one call

\* ------------------------------------------------------ program constants
Null          == 0    \* nullptr
N_BATCH       == 512  \* ctx_params.n_batch
TOP_K_DEFAULT == 40   \* llama_sampler_init_top_k(40)
TOP_P_DEFAULT == 9    \* llama_sampler_init_top_p(0.9f, 1), in tenths
TEMP_DEFAULT  == 7    \* llama_sampler_init_temp(0.7f), in tenths
MIN_KEEP      == 1    \* second argument of llama_sampler_init_top_p
SEED          == 42   \* llama_sampler_init_dist(42)
TOP_P_ONE     == 10   \* 1.0f, in tenths
SEQ_ID        == 0    \* seq_id in decode_tokens_internal
NOT_LOADED    == -1   \* return value when g_ctx / g_sampler is absent
EOS_DEFAULT   == 2    \* getEosToken without a model

Handles   == 1..MaxHandles
Tokens    == 1..MaxTokens
\* decode copies the token values and never branches on them, so the inputs
\* are the arrays of pairwise distinct tokens in ascending and in descending
\* order: any token lost, repeated or moved shows in the submitted batches
TokenSeqs == {[k \in 1..n |-> k] : n \in 0..MaxTokens}
             \cup {[k \in 1..n |-> n + 1 - k] : n \in 0..MaxTokens}
CtxSizes  == 1..MaxCtx
\* llama_n_batch(g_ctx): the width the engine settled on, at most the
\* requested N_BATCH
BatchWidths == {b \in 1..MaxBatch : b <= N_BATCH}
\* llama_decode: 0 success, 1 no cache slot, negative error
DecodeStatuses == {0, 1, -1}
\* (temperature, topP, topK) passed to resetSampler: greedy without filters
\* and the values of the default chain, which take each branch of the three
\* tests both ways
ResetInputs == {<<0, TOP_P_ONE, 0>>,
                <<TEMP_DEFAULT, TOP_P_DEFAULT, TOP_K_DEFAULT>>}

VARIABLES
    g_model,     \* llama_model*   (Null or a handle)
    g_ctx,       \* llama_context* (Null or a handle)
    g_sampler,   \* llama_sampler* (Null or a handle)
    g_n_past,    \* position in the KV cache
    models,      \* engine heap: set of live model handles
    ctxs,        \* engine heap: live context handle -> its state
    samplers,    \* engine heap: live sampler handle -> its state
    pc,          \* position inside the running entry point, "idle" between calls
    op,          \* the running / last call: name, argument, return value
    pre,         \* the globals when the running / last call was entered
    freed,       \* handles the running / last call has freed, in order
    badFree,     \* some free was handed a handle that was not live
    d,           \* locals and submission log of the running / last decode
    track,       \* whether the episode logs below are kept
    epi,         \* calls made since the last loadModel / clearContext
    ref,         \* log of the decode (and sample) made right after loadModel
    cur,         \* log of the decode (and sample) made right after clearContext
    mode,        \* which episodes the logs follow, fixed for a behaviour
    has_whisper, \* HAS_WHISPER: whisper.h was found when the library was built
    g_wctx,      \* whisper_context* (Null or a handle)
    wctxs,       \* engine heap: set of live whisper contexts
    g_threads,   \* thread count handed to whisper_full
    wlast,       \* outcome of the last loadModel / unloadModel of whisper_jni
    check_jni,   \* the runtime checks the arguments of JNI calls
    wop,         \* the last call into the recognition controller or for the
                 \* text of a token: its arguments, strings and return value
    aborted,     \* the runtime has aborted the process
    last_cache   \* the last call before the running / last one that affected
                 \* the cache, and how it ended (kept in mode "logits")

vars == <<g_model, g_ctx, g_sampler, g_n_past, models, ctxs, samplers,
          pc, op, pre, freed, badFree, d, track, epi, ref, cur,
          mode, has_whisper, g_wctx, wctxs, g_threads, wlast, check_jni, wop,
          aborted, last_cache>>

whisper == <<has_whisper, g_wctx, wctxs, g_threads, wlast, check_jni>>

globals == <<g_model, g_ctx, g_sampler, g_n_past>>
heap    == <<models, ctxs, samplers>>

\* ---------------------------------------------------------------- helpers
Min(a, b) == IF a < b THEN a ELSE b

RECURSIVE SumSeq(_)
SumSeq(s) == IF s = <<>> THEN 0 ELSE Head(s) + SumSeq(Tail(s))

RECURSIVE Flatten(_)
Flatten(ss) == IF ss = <<>> THEN <<>> ELSE Head(ss) \o Flatten(Tail(ss))

Remove(f, h) == [x \in (DOMAIN f) \ {h} |-> f[x]]
Put(f, h, v) == [x \in (DOMAIN f) \cup {h} |-> IF x = h THEN v ELSE f[x]]

NoLog  == [tokens |-> <<>>, statuses |-> <<>>, batches |-> <<>>, ret |-> 0,
           n_ctx |-> 0, n_batch |-> 0,
           sample |-> 0, chain |-> <<>>, draws |-> 0, set |-> FALSE]
NoD    == [tokens |-> <<>>, offset |-> 0, n_batch |-> 0, past0 |-> 0,
           batches |-> <<>>, statuses |-> <<>>]
Snapshot == [model |-> g_model, ctx |-> g_ctx, sampler |-> g_sampler,
             n_past |-> g_n_past]
NoPre    == [model |-> Null, ctx |-> Null, sampler |-> Null, n_past |-> 0]
\* the address the allocator returns: the lowest one not in use
NewHandle(live) == CHOOSE h \in Handles \ live : \A x \in Handles \ live : h <= x
CanAlloc(live)  == Handles \ live # {}
\* the episode bookkeeping advances only when it is kept
Stage(e, s)     == IF track THEN [e EXCEPT !.stage = s] ELSE e
Origin(e, o, s) == IF track THEN [origin |-> o, stage |-> s] ELSE e
\* no call into the recognition controller has been made, or the last call
\* went to the text-generation controller
NoWop == [name |-> "none"]
\* a step of the text-generation controller: the process is alive and the
\* recognition controller is left alone
\* what the running / last call did to the cache: loadModel creates the
\* context, unloadModel destroys it, clearContext empties it, and a decode
\* with a context is running, failed, returned 0 for no tokens or returned
\* 0 for some; the other calls leave the cache as the call before did
CacheOp ==
    IF op.name = "loadModel" THEN "load"
    ELSE IF op.name = "unloadModel" THEN "unload"
    ELSE IF op.name = "clearContext" THEN "clear"
    ELSE IF op.name = "decode" /\ g_ctx # Null
    THEN IF pc.at # "idle" THEN "decoding"
         ELSE IF op.ret # 0 THEN "decode_failed"
         ELSE IF op.arg = 0 THEN "decode_empty"
         ELSE "decode_ok"
    ELSE last_cache
Llama ==
    /\ ~aborted
    /\ wop' = NoWop
    /\ last_cache' = IF mode = "logits" THEN CacheOp ELSE last_cache
    /\ UNCHANGED <<mode, whisper, aborted>>

\* a call outside the compared pattern ends the episode and drops its logs
Forget ==
    /\ epi' = Stage(epi, 3)
    /\ ref' = NoLog
    /\ cur' = NoLog


JNI_TRUE  == 1
JNI_FALSE == 0
Idle      == [at |-> "idle", i |-> 0]
At(l)     == [at |-> l, i |-> 0]

\* ------------------------------------------------------------ sampler chain
\* variant: temperature scaling added before the filters
DefaultChain_TempFirst ==
    << <<"temp", TEMP_DEFAULT>>, <<"top_k", TOP_K_DEFAULT>>,
       <<"top_p", TOP_P_DEFAULT, MIN_KEEP>>, <<"dist", SEED>> >>

\* loadModel: top-k -> top-p -> temp -> dist
DefaultChain ==
    << <<"top_k", TOP_K_DEFAULT>>, <<"top_p", TOP_P_DEFAULT, MIN_KEEP>>,
       <<"temp", TEMP_DEFAULT>>, <<"dist", SEED>> >>

\* resetSampler: the stages added for (temperature, topP, topK)
\* variant: the top-p stage is also added for topP = 1.0
BuildChain_TopPInclusive(temperature, topP, topK) ==
    (IF topK > 0 THEN << <<"top_k", topK>> >> ELSE <<>>)
    \o (IF topP <= TOP_P_ONE THEN << <<"top_p", topP, MIN_KEEP>> >> ELSE <<>>)
    \o (IF temperature > 0
        THEN << <<"temp", temperature>>, <<"dist", SEED>> >>
        ELSE << <<"greedy">> >>)

BuildChain(temperature, topP, topK) ==
    (IF topK > 0 THEN << <<"top_k", topK>> >> ELSE <<>>)
    \o (IF topP < TOP_P_ONE THEN << <<"top_p", topP, MIN_KEEP>> >> ELSE <<>>)
    \o (IF temperature > 0
        THEN << <<"temp", temperature>>, <<"dist", SEED>> >>
        ELSE << <<"greedy">> >>)

IsStochastic(chain) == chain # <<>> /\ chain[Len(chain)][1] = "dist"

\* The engine's cache is kept as the number of occupied cells and a digest
\* of the tokens in them; the logits of the last position are a function of
\* the cache contents they were computed from, i.e. of the digest.
NoLogits == -1
DigestAdd(dg, toks) == (dg + SumSeq(toks)) % SampleRange

\* llama_sampler_sample(g_sampler, g_ctx, -1): the engine's choice is a
\* function of the logits, and for a chain ending in a stochastic draw also
\* of how far its generator has advanced.
Argmax(lg)      == (lg % SampleRange) + 1
Draw(lg, draws) == ((lg + draws + 1) % SampleRange) + 1
SampleToken(chain, draws, lg) ==
    IF IsStochastic(chain) THEN Draw(lg, draws) ELSE Argmax(lg)

\* ------------------------------------------------------------------ decode
\* n_eval = std::min(n_batch, n_tokens - offset)
NEval(n_batch, n_tokens, offset) == Min(n_batch, n_tokens - offset)

\* variant: the last token of every chunk is flagged
LogitsFlag_EveryChunk(i, n_eval, offset, n_tokens) ==
    IF i = n_eval - 1 THEN 1 ELSE 0

\* batch.logits[i]: cleared for every i, then set for the last token of the
\* final chunk (i is 0-based as in the code)
LogitsFlag(i, n_eval, offset, n_tokens) ==
    IF offset + n_eval = n_tokens /\ i = n_eval - 1 THEN 1 ELSE 0

\* variant: the positions of every chunk start at 0
BatchPos_FromZero(n_past, i) == i

\* batch.pos[i] = g_n_past + i
BatchPos(n_past, i) == n_past + i

\* variant: the chunk is read from the start of the array, not from offset
MakeBatch_NoOffset(tokens, offset, n_eval, n_past) ==
    [k \in 1..n_eval |->
        [token  |-> tokens[k],
         pos    |-> n_past + (k - 1),
         seq_id |-> SEQ_ID,
         logits |-> IF offset + n_eval = Len(tokens) /\ k = n_eval THEN 1 ELSE 0]]

\* the llama_batch filled by the for loop of decode_tokens_internal
MakeBatch(tokens, offset, n_eval, n_past) ==
    [k \in 1..n_eval |->
        [token  |-> tokens[offset + k],
         pos    |-> BatchPos(n_past, k - 1),
         seq_id |-> SEQ_ID,
         logits |-> LogitsFlag(k - 1, n_eval, offset, Len(tokens))]]

\* variant: the position advances before the status is looked at
PastAfter_Always(n_past, n_eval, res) == n_past + n_eval

\* g_n_past after llama_decode returned res for a chunk of n_eval tokens:
\* "if (res != 0) return res; g_n_past += n_eval;"
PastAfter(n_past, n_eval, res) == IF res # 0 THEN n_past ELSE n_past + n_eval

\* the loop continues after a chunk only when llama_decode returned 0
AbortsOn(res) == res # 0

\* ------------------------------------------------------- teardown orders
\* variant: the model is freed before the context created from it
UnloadOrder_ModelFirst == <<"sampler", "model", "ctx">>
\* unloadModel: sampler, context, model
UnloadOrder == <<"sampler", "ctx", "model">>
\* variant: the reload forgets the context
ReloadOrder_SkipCtx == <<"sampler", "model">>
\* loadModel on a loaded controller: sampler, context, model
ReloadOrder == <<"sampler", "ctx", "model">>

Ptr(kind) == CASE kind = "sampler" -> g_sampler
               [] kind = "ctx"     -> g_ctx
               [] kind = "model"   -> g_model

Live(kind, h) == CASE kind = "sampler" -> h \in DOMAIN samplers
                   [] kind = "ctx"     -> h \in DOMAIN ctxs
                   [] kind = "model"   -> h \in models

\* variant: the handle is freed and the pointer keeps its value
FreeAndNull_Dangling(kind) ==
    LET h == Ptr(kind) IN
    /\ UNCHANGED <<g_sampler, g_ctx, g_model>>
    /\ samplers'  = IF kind = "sampler" /\ h # Null THEN Remove(samplers, h) ELSE samplers
    /\ ctxs'      = IF kind = "ctx"     /\ h # Null THEN Remove(ctxs, h)     ELSE ctxs
    /\ models'    = IF kind = "model"   /\ h # Null THEN models \ {h}        ELSE models
    /\ freed'     = IF h # Null THEN Append(freed, <<kind, h>>) ELSE freed
    /\ badFree'   = (badFree \/ (h # Null /\ ~Live(kind, h)))

\* "if (p) { free(p); p = nullptr; }" for the handle of the given kind
FreeAndNull(kind) ==
    LET h == Ptr(kind) IN
    /\ g_sampler' = IF kind = "sampler" THEN Null ELSE g_sampler
    /\ g_ctx'     = IF kind = "ctx"     THEN Null ELSE g_ctx
    /\ g_model'   = IF kind = "model"   THEN Null ELSE g_model
    /\ samplers'  = IF kind = "sampler" /\ h # Null THEN Remove(samplers, h) ELSE samplers
    /\ ctxs'      = IF kind = "ctx"     /\ h # Null THEN Remove(ctxs, h)     ELSE ctxs
    /\ models'    = IF kind = "model"   /\ h # Null THEN models \ {h}        ELSE models
    /\ freed'     = IF h # Null THEN Append(freed, <<kind, h>>) ELSE freed
    /\ badFree'   = (badFree \/ (h # Null /\ ~Live(kind, h)))

\* -------------------------------------------------------------------- Init
InitState ==
    /\ g_model = Null /\ g_ctx = Null /\ g_sampler = Null /\ g_n_past = 0
    /\ models = {} /\ ctxs = <<>> /\ samplers = <<>>
    /\ pc = Idle
    /\ op = [name |-> "none", arg |-> 0, ret |-> 0]
    /\ pre = NoPre
    /\ freed = <<>> /\ badFree = FALSE
    /\ d = NoD
    /\ epi = [origin |-> "none", stage |-> 3]
    /\ ref = NoLog /\ cur = NoLog
    /\ last_cache = "none"

\* whisper_jni.cpp: g_wctx = nullptr, g_threads = 4
THREADS_DEFAULT == 4
InitWhisper ==
    /\ g_wctx = Null /\ wctxs = {} /\ g_threads = THREADS_DEFAULT
    /\ wlast = "none"
    /\ wop = NoWop
    /\ aborted = FALSE

Init == InitState /\ track = FALSE /\ mode = "none"
        /\ InitWhisper /\ has_whisper = TRUE
           /\ check_jni = TRUE

\* entry of a call that changes the globals; pre keeps their values for
\* the calls that tear state down or reset it
Enter(name, arg) ==
    /\ Llama
    /\ pc = Idle
    /\ op' = [name |-> name, arg |-> arg, ret |-> 0]
    /\ pre' = IF name \in {"loadModel", "unloadModel", "clearContext"}
              THEN Snapshot ELSE NoPre
    /\ freed' = <<>>
    /\ d' = NoD
    /\ track' = track

\* a call that only reads the globals and returns ret
Query(name, arg, ret) ==
    /\ Llama
    /\ pc = Idle
    /\ op' = [name |-> name, arg |-> arg, ret |-> ret]
    /\ pre' = NoPre
    /\ freed' = <<>>
    /\ d' = NoD
    /\ Forget
    /\ UNCHANGED <<globals, heap, pc, badFree, track>>

\* ---------------------------------------------------------------- loadModel
\* the log of the first run is kept when the reload follows it at once:
\* the run after clearContext, or (mode "greedy") the run after
\* resetSampler with a temperature of 0 or less, sample included
KeptOverReload ==
    IF mode = "greedy"
    THEN epi.origin = "greedy" /\ epi.stage = 2 /\ cur.sample # 0
    ELSE mode # "split" /\ epi.origin = "clear" /\ epi.stage \in {1, 2}

\* the engine can still hand out the sampler handle this load will ask for
HeapRoom ==
    CanAlloc(DOMAIN samplers \ (IF g_model # Null THEN {g_sampler} ELSE {}))

LoadEnter(contextSize) ==
    /\ Enter("loadModel", contextSize)
    /\ HeapRoom
    /\ pc' = IF g_model # Null THEN [at |-> "ld_teardown", i |-> 1]
                               ELSE At("ld_weights")
    /\ epi' = Origin(epi, "none", 3)
    /\ ref' = NoLog
    /\ cur' = IF KeptOverReload THEN cur ELSE NoLog
    /\ UNCHANGED <<globals, heap, badFree>>

LoadTeardownStep ==
    /\ Llama
    /\ pc.at = "ld_teardown" /\ pc.i <= Len(ReloadOrder)
    /\ FreeAndNull(ReloadOrder[pc.i])
    /\ pc' = [pc EXCEPT !.i = @ + 1]
    /\ UNCHANGED <<g_n_past, op, pre, d, track, epi, ref, cur>>

LoadTeardownDone ==
    /\ Llama
    /\ pc.at = "ld_teardown" /\ pc.i > Len(ReloadOrder)
    /\ g_n_past' = 0
    /\ pc' = At("ld_weights")
    /\ UNCHANGED <<g_model, g_ctx, g_sampler, heap, op, pre, freed, badFree,
                   d, track, epi, ref, cur>>

\* g_model = llama_model_load_from_file(...); nullptr on failure
LoadWeights ==
    /\ Llama
    /\ pc.at = "ld_weights"
    /\ \/ /\ CanAlloc(models)
          /\ g_model' = NewHandle(models)
          /\ models' = models \cup {NewHandle(models)}
          /\ pc' = At("ld_context")
          /\ UNCHANGED <<op, cur>>
       \/ /\ g_model' = Null
          /\ models' = models
          /\ pc' = Idle
          /\ op' = [op EXCEPT !.ret = JNI_FALSE]
          /\ cur' = NoLog
    /\ UNCHANGED <<g_ctx, g_sampler, g_n_past, ctxs, samplers, pre, freed,
                   badFree, d, track, epi, ref>>

\* g_ctx = llama_init_from_model(g_model, ctx_params); nullptr on failure
LoadCreateCtx ==
    /\ Llama
    /\ pc.at = "ld_context"
    /\ \/ \E nb \in BatchWidths :
            /\ CanAlloc(DOMAIN ctxs)
            /\ g_ctx' = NewHandle(DOMAIN ctxs)
            /\ ctxs' = Put(ctxs, NewHandle(DOMAIN ctxs), [model |-> g_model, n_ctx |-> op.arg,
                                     n_batch |-> nb, cells |-> 0,
                                     digest |-> 0, logits |-> NoLogits])
            /\ g_n_past' = 0
            /\ pc' = At("ld_chain")
            /\ UNCHANGED <<g_model, models, op, freed, badFree, cur>>
       \/ /\ g_ctx' = Null
          /\ g_model' = Null
          /\ models' = models \ {g_model}
          /\ freed' = Append(freed, <<"model", g_model>>)
          /\ badFree' = (badFree \/ g_model \notin models)
          /\ pc' = Idle
          /\ op' = [op EXCEPT !.ret = JNI_FALSE]
          /\ cur' = NoLog
          /\ UNCHANGED <<g_n_past, ctxs>>
    /\ UNCHANGED <<g_sampler, samplers, pre, d, track, epi, ref>>

\* g_sampler = llama_sampler_chain_init(...) plus the four default stages
LoadBuildChain ==
    /\ Llama
    /\ pc.at = "ld_chain"
    /\ CanAlloc(DOMAIN samplers)
    /\ g_sampler' = NewHandle(DOMAIN samplers)
    /\ samplers' = Put(samplers, NewHandle(DOMAIN samplers),
                       [chain |-> DefaultChain, draws |-> 0])
    /\ pc' = Idle
    /\ op' = [op EXCEPT !.ret = JNI_TRUE]
    /\ epi' = Origin(epi, "load", 0)
    /\ cur' = IF cur.n_ctx = ctxs[g_ctx].n_ctx /\ cur.n_batch = ctxs[g_ctx].n_batch
              THEN cur ELSE NoLog
    /\ UNCHANGED <<g_model, g_ctx, g_n_past, models, ctxs, pre, freed, badFree,
                   d, track, ref>>

\* -------------------------------------------------------------- unloadModel
UnloadEnter ==
    /\ Enter("unloadModel", 0)
    /\ pc' = [at |-> "unload", i |-> 1]
    /\ epi' = Origin(epi, "none", 3)
    /\ ref' = NoLog /\ cur' = NoLog
    /\ UNCHANGED <<globals, heap, badFree>>

UnloadStep ==
    /\ Llama
    /\ pc.at = "unload" /\ pc.i <= Len(UnloadOrder)
    /\ FreeAndNull(UnloadOrder[pc.i])
    /\ pc' = [pc EXCEPT !.i = @ + 1]
    /\ UNCHANGED <<g_n_past, op, pre, d, track, epi, ref, cur>>

UnloadDone ==
    /\ Llama
    /\ pc.at = "unload" /\ pc.i > Len(UnloadOrder)
    /\ g_n_past' = 0
    /\ pc' = Idle
    /\ UNCHANGED <<g_model, g_ctx, g_sampler, heap, op, pre, freed, badFree,
                   d, track, epi, ref, cur>>


\* ------------------------------------------------------------------ decode
\* the log entry of the decode call that just returned
Entry(ret, batches, statuses) ==
    [tokens |-> d.tokens, statuses |-> statuses, batches |-> batches,
     ret |-> ret, n_ctx |-> ctxs[g_ctx].n_ctx, n_batch |-> d.n_batch,
     sample |-> 0, chain |-> <<>>, draws |-> 0, set |-> TRUE]

\* the decode right after clearContext is logged in cur; the decode of the
\* same tokens right after the reload that follows it is logged in ref
LogDecode(ret, batches, statuses) ==
    IF mode = "split"
    THEN /\ ref' = NoLog
         /\ cur' = IF ret = 0
                   THEN [cur EXCEPT !.batches = @ \o batches,
                                    !.ends = Append(@, Len(cur.tokens))]
                   ELSE NoLog
    ELSE
    IF track /\ epi.stage = 1 /\ epi.origin \in {"clear", "greedy"}
    THEN cur' = Entry(ret, batches, statuses) /\ ref' = NoLog
    ELSE IF track /\ epi.stage = 1 /\ epi.origin \in {"load", "greedy2"}
            /\ cur.set /\ cur.tokens = d.tokens
    THEN ref' = Entry(ret, batches, statuses) /\ cur' = cur
    ELSE ref' = NoLog /\ cur' = NoLog

\* the call is the first one of the episode that is followed
FirstCall ==
    /\ epi.stage = 0
    /\ mode = "greedy" => epi.origin \in {"greedy", "greedy2"}

\* mode "split": cur follows a run of decode calls that all returned 0; it
\* keeps the cache position at which the run began, the concatenated
\* input, the batches submitted by the calls that have returned and the
\* input length at each return
RunRoom == (mode = "split" /\ cur.set) => Len(cur.ends) < MaxCalls
NewRun(tokens) ==
    [set |-> TRUE, past0 |-> g_n_past, tokens |-> tokens, batches |-> <<>>,
     ends |-> <<>>]
EnterLog(tokens) ==
    IF mode = "split"
    THEN IF cur.set THEN [cur EXCEPT !.tokens = @ \o tokens]
                    ELSE NewRun(tokens)
    ELSE IF FirstCall THEN cur ELSE NoLog

\* Java_..._decode and the entry of decode_tokens_internal
DecodeEnter(tokens) ==
    /\ Llama
    /\ RunRoom
    /\ pc = Idle
    /\ pre' = NoPre
    /\ freed' = <<>>
    /\ IF g_ctx = Null
       THEN /\ op' = [name |-> "decode", arg |-> Len(tokens), ret |-> NOT_LOADED]
            /\ pc' = Idle
            /\ d' = NoD
            /\ Forget
       ELSE /\ op' = [name |-> "decode", arg |-> Len(tokens), ret |-> 0]
            /\ pc' = At("decode_loop")
            /\ d' = [tokens |-> tokens, offset |-> 0,
                     n_batch |-> ctxs[g_ctx].n_batch, past0 |-> g_n_past,
                     batches |-> <<>>, statuses |-> <<>>]
            /\ epi' = Stage(epi, IF FirstCall THEN 1 ELSE 3)
            /\ ref' = NoLog
            /\ cur' = EnterLog(tokens)
    /\ UNCHANGED <<globals, heap, badFree, track>>

\* llama_decode(g_ctx, batch): the statuses the engine can return for a batch
\* of n_eval tokens; 0 only when the batch fits into the cache
DecodeOutcomes(c, n_eval) ==
    {r \in DecodeStatuses : r = 0 => c.cells + n_eval <= c.n_ctx}

\* variant: logits computed by an earlier call are not replaced
CtxAfterDecode_StaleLogits(c, batch, res, keep) ==
    IF res = 0
    THEN LET dg == DigestAdd(c.digest, [k \in 1..Len(batch) |-> batch[k].token]) IN
         [c EXCEPT !.cells = @ + Len(batch),
                   !.digest = dg,
                   !.logits = IF \E k \in 1..Len(batch) : batch[k].logits # 0
                              THEN (IF @ # NoLogits THEN @ ELSE dg)
                              ELSE NoLogits]
    ELSE [c EXCEPT !.logits = IF keep THEN @ ELSE NoLogits]

\* the context after llama_decode returned res for the batch
CtxAfterDecode(c, batch, res, keep) ==
    IF res = 0
    THEN LET dg == DigestAdd(c.digest, [k \in 1..Len(batch) |-> batch[k].token]) IN
         [c EXCEPT !.cells = @ + Len(batch),
                   !.digest = dg,
                   !.logits = IF \E k \in 1..Len(batch) : batch[k].logits # 0
                              THEN dg ELSE NoLogits]
    ELSE [c EXCEPT !.logits = IF keep THEN @ ELSE NoLogits]

\* one iteration of the while loop of decode_tokens_internal
DecodeChunk ==
    /\ Llama
    /\ pc.at = "decode_loop"
    /\ d.offset < Len(d.tokens)
    /\ LET n_eval == NEval(d.n_batch, Len(d.tokens), d.offset)
           batch  == MakeBatch(d.tokens, d.offset, n_eval, g_n_past)
       IN \E res \in DecodeOutcomes(ctxs[g_ctx], n_eval), keep \in BOOLEAN :
            /\ (res = 0 => keep)
            /\ ctxs' = [ctxs EXCEPT ![g_ctx] = CtxAfterDecode(@, batch, res, keep)]
            /\ g_n_past' = PastAfter(g_n_past, n_eval, res)
            /\ LET bs == Append(d.batches, batch)
                   ss == Append(d.statuses, res)
               IN IF AbortsOn(res)
                  THEN /\ d' = [d EXCEPT !.batches = bs, !.statuses = ss]
                       /\ op' = [op EXCEPT !.ret = res]
                       /\ pc' = Idle
                       /\ LogDecode(res, bs, ss)
                  ELSE /\ d' = [d EXCEPT !.batches = bs, !.statuses = ss,
                                         !.offset = @ + n_eval]
                       /\ UNCHANGED <<op, pc, ref, cur>>
    /\ UNCHANGED <<g_model, g_ctx, g_sampler, models, samplers, pre, freed,
                   badFree, track, epi>>

\* the while condition fails: return 0
DecodeDone ==
    /\ Llama
    /\ pc.at = "decode_loop"
    /\ ~(d.offset < Len(d.tokens))
    /\ op' = [op EXCEPT !.ret = 0]
    /\ pc' = Idle
    /\ LogDecode(0, d.batches, d.statuses)
    /\ UNCHANGED <<globals, heap, pre, freed, badFree, d, track, epi>>

\* ------------------------------------------------------------------ sample
\* the token llama_sampler_sample returns when the context holds logits
SampleOutcome(s, c) == SampleToken(s.chain, s.draws, c.logits)

SamplerAfter(s) == IF IsStochastic(s.chain) THEN [s EXCEPT !.draws = @ + 1] ELSE s

SampleAbsent ==
    /\ g_ctx = Null \/ g_sampler = Null
    /\ Query("sample", 0, NOT_LOADED)

\* the sample right after a logged decode joins that decode's log entry
Sampled(log, token) ==
    [log EXCEPT !.sample = token, !.chain = samplers[g_sampler].chain,
                !.draws = samplers[g_sampler].draws]

LogSample(token) ==
    IF mode = "split"
    THEN UNCHANGED <<cur, ref, epi>>
    ELSE
    IF track /\ epi.stage = 1 /\ epi.origin \in {"clear", "greedy"} /\ cur.set
    THEN cur' = Sampled(cur, token) /\ ref' = ref /\ epi' = Stage(epi, 2)
    ELSE IF track /\ epi.stage = 1 /\ epi.origin \in {"load", "greedy2"}
            /\ ref.set /\ cur.sample # 0
    THEN ref' = Sampled(ref, token) /\ cur' = cur /\ epi' = Stage(epi, 2)
    ELSE Forget

\* sample() with Context and SamplerChain present; token is what the engine
\* returned
SampleWith(token) ==
    /\ Llama
    /\ pc = Idle
    /\ g_ctx # Null /\ g_sampler # Null
    /\ samplers[g_sampler].draws < MaxDraws
    /\ pre' = NoPre /\ freed' = <<>> /\ d' = NoD /\ track' = track
    /\ op' = [name |-> "sample", arg |-> 0, ret |-> token]
    /\ LogSample(token)
    /\ samplers' = [samplers EXCEPT ![g_sampler] = SamplerAfter(@)]
    /\ UNCHANGED <<globals, models, ctxs, pc, badFree>>

\* the context holds the logits of its last position
Sample ==
    /\ pc = Idle
    /\ g_ctx # Null /\ g_sampler # Null
    /\ ctxs[g_ctx].logits # NoLogits
    /\ SampleWith(SampleOutcome(samplers[g_sampler], ctxs[g_ctx]))

\* the context holds no logits: what the engine returns is unspecified
SampleNoLogits ==
    /\ pc = Idle
    /\ g_ctx # Null /\ g_sampler # Null
    /\ ctxs[g_ctx].logits = NoLogits
    /\ \E token \in 1..SampleRange : SampleWith(token)

\* ------------------------------------------------------------ resetSampler
\* variant: the reconfiguration also rewinds the cache position
ResetSamplerFrame_Rewind ==
    /\ g_n_past' = 0
    /\ UNCHANGED <<g_model, g_ctx, models, ctxs, pc>>

\* resetSampler assigns g_sampler and nothing else
ResetSamplerFrame ==
    UNCHANGED <<g_model, g_ctx, g_n_past, models, ctxs, pc>>

\* mode "greedy": resetSampler with a temperature of 0 or less on a loaded
\* controller starts an episode, the second one when it is the first call
\* after the reload that followed the first; any other resetSampler ends
\* the episode
LogReset(temperature) ==
    IF mode = "greedy" /\ temperature <= 0 /\ g_ctx # Null
    THEN IF epi.origin = "load" /\ epi.stage = 0 /\ cur.sample # 0
         THEN epi' = Origin(epi, "greedy2", 0) /\ cur' = cur /\ ref' = NoLog
         ELSE epi' = Origin(epi, "greedy", 0) /\ cur' = NoLog /\ ref' = NoLog
    ELSE Forget

ResetSampler(temperature, topP, topK) ==
    /\ Llama
    /\ pc = Idle
    /\ op' = [name |-> "resetSampler", arg |-> <<temperature, topP, topK>>,
              ret |-> 0]
    /\ pre' = NoPre /\ d' = NoD /\ track' = track
    /\ LET rest == IF g_sampler # Null THEN Remove(samplers, g_sampler)
                                       ELSE samplers
       IN /\ freed' = IF g_sampler # Null THEN <<<<"sampler", g_sampler>>>>
                                          ELSE <<>>
          /\ badFree' = (badFree \/ (g_sampler # Null
                                     /\ g_sampler \notin DOMAIN samplers))
          /\ CanAlloc(DOMAIN rest)
          /\ LET h == NewHandle(DOMAIN rest) IN
                /\ g_sampler' = h
                /\ samplers' = Put(rest, h,
                                   [chain |-> BuildChain(temperature, topP, topK),
                                    draws |-> 0])
    /\ LogReset(temperature)
    /\ ResetSamplerFrame

\* ------------------------------------------------------------ clearContext
\* variant: the cache is left as it is
ClearedCtx_Keep(c) == c

\* llama_memory_clear(mem, true) empties the cache; llama_get_memory is
\* non-null for the context of a causal model
ClearedCtx(c) == [c EXCEPT !.cells = 0, !.digest = 0]

\* variant: the cache is emptied and g_n_past keeps its value
ClearContext_KeepPast ==
    /\ Enter("clearContext", 0)
    /\ ctxs' = IF g_ctx # Null THEN [ctxs EXCEPT ![g_ctx] = ClearedCtx(@)]
                               ELSE ctxs
    /\ g_n_past' = g_n_past
    /\ epi' = IF g_ctx # Null THEN Origin(epi, "clear", 0) ELSE Stage(epi, 3)
    /\ ref' = NoLog /\ cur' = NoLog
    /\ UNCHANGED <<g_model, g_ctx, g_sampler, models, samplers, pc, badFree>>

ClearContext ==
    /\ Enter("clearContext", 0)
    /\ ctxs' = IF g_ctx # Null THEN [ctxs EXCEPT ![g_ctx] = ClearedCtx(@)]
                               ELSE ctxs
    /\ g_n_past' = 0
    /\ epi' = IF g_ctx # Null THEN Origin(epi, "clear", 0) ELSE Stage(epi, 3)
    /\ ref' = NoLog /\ cur' = NoLog
    /\ UNCHANGED <<g_model, g_ctx, g_sampler, models, samplers, pc, badFree>>

\* -------------------------------------------------------- read-only calls
InitBackend == Query("init", 0, 0)

IsLoadedValue == IF g_model # Null /\ g_ctx # Null THEN JNI_TRUE ELSE JNI_FALSE
IsLoaded == Query("isLoaded", 0, IsLoadedValue)

\* tokenize: nullptr without a model or when llama_tokenize reports a
\* negative count, else the tokens
Tokenize ==
    \/ /\ g_model = Null
       /\ Query("tokenize", 0, -1)
    \/ /\ g_model # Null
       /\ \E nTokens \in {-1, 0, 1} : Query("tokenize", 0, nTokens)

\* ---------------------------------------------------------------- strings
\* Bytes the engines produce: "a" is an ASCII byte, "L" the lead byte of a
\* two-byte sequence and "T" a continuation byte.  Characters of a Java
\* string: "a", "e" (the character encoded by L T), "R" (U+FFFD) and "g"
\* (whatever an unchecked decoder makes of an ill-formed byte).
Pieces   == {<<>>, <<"a">>, <<"L", "T">>, <<"L">>, <<"T">>}

RECURSIVE WellFormed(_)
WellFormed(bytes) ==
    IF bytes = <<>> THEN TRUE
    ELSE IF bytes[1] = "a" THEN WellFormed(Tail(bytes))
    ELSE IF bytes[1] = "L" /\ Len(bytes) >= 2 /\ bytes[2] = "T"
         THEN WellFormed(Tail(Tail(bytes)))
    ELSE FALSE

\* decoding that maps every ill-formed byte to bad
RECURSIVE Decode(_, _)
Decode(bytes, bad) ==
    IF bytes = <<>> THEN <<>>
    ELSE IF bytes[1] = "a" THEN <<"a">> \o Decode(Tail(bytes), bad)
    ELSE IF bytes[1] = "L" /\ Len(bytes) >= 2 /\ bytes[2] = "T"
         THEN <<"e">> \o Decode(Tail(Tail(bytes)), bad)
    ELSE <<bad>> \o Decode(Tail(bytes), bad)

\* new String(byte[], StandardCharsets.UTF_8): U+FFFD for ill-formed bytes
StringFromBytes(bytes) == Decode(bytes, "R")

\* what a call hands back: a Java string, null, or nothing because the
\* runtime aborted inside the call
Text(chars) == [kind |-> "text", text |-> chars]
NullRef     == [kind |-> "null", text |-> <<>>]
Abort       == [kind |-> "abort", text |-> <<>>]

\* new_string_from_utf8_bytes(env, bytes, len): the strings it can return;
\* "" for no bytes and when a class, field, constructor or array cannot be
\* obtained from the runtime (jvm_ok false)
NewStringFromUtf8Bytes(bytes, jvm_ok) ==
    IF Len(bytes) <= 0 \/ ~jvm_ok THEN {Text(<<>>)}
    ELSE {Text(StringFromBytes(bytes))}

\* env->NewStringUTF(bytes): the string for well-formed input; for
\* ill-formed input a runtime that checks its arguments aborts and one that
\* does not decodes without checking
NewStringUTFWith(bytes, checked) ==
    IF WellFormed(bytes) THEN Text(Decode(bytes, "R"))
    ELSE IF checked THEN Abort
    ELSE Text(Decode(bytes, "g"))
NewStringUTF(bytes) == {NewStringUTFWith(bytes, checked) : checked \in BOOLEAN}

\* the record of a call that returns a string: handed are the bytes given
\* to the string constructor, sink the strings passed on before the return
NoParams == [strategy |-> "none"]
NoEngine == [res |-> 0, segs |-> <<>>, cuts |-> <<>>]
StringCall(name) ==
    [name |-> name, pre |-> Null, ret |-> 0, str |-> NullRef, len |-> 0,
     pcm |-> <<>>, rate |-> 0, tag |-> <<>>, translate |-> FALSE,
     callback |-> FALSE, invoked |-> NoParams, eng |-> NoEngine,
     checked |-> FALSE, handed |-> <<>>, sink |-> <<>>, freed |-> <<>>,
     bad |-> FALSE]

\* llama_token_to_piece: a negative length, or the bytes of the piece
PieceLookups == {[len |-> -1, bytes |-> <<>>]}
                \cup {[len |-> Len(b), bytes |-> b] : b \in Pieces}

\* tokenToString: "" without a model or on a negative piece length, else
\* the piece through new_string_from_utf8_bytes
TokenText(lk, r) ==
    /\ ~aborted
    /\ pc = Idle
    /\ op' = [name |-> "tokenToString", arg |-> 0, ret |-> 0]
    /\ wop' = [StringCall("tokenToString")
                 EXCEPT !.pre = g_model, !.len = lk.len,
                        !.handed = <<lk.bytes>>, !.str = r]
    /\ pre' = NoPre
    /\ freed' = <<>>
    /\ d' = NoD
    /\ Forget
    /\ last_cache' = IF mode = "logits" THEN CacheOp ELSE last_cache
    /\ UNCHANGED <<globals, heap, pc, badFree, track, mode, whisper, aborted>>

TokenToString(token) ==
    \/ /\ g_model = Null
       /\ \E r \in NewStringUTF(<<>>) :
            TokenText([len |-> 0, bytes |-> <<>>], r)
    \/ /\ g_model # Null
       /\ \E lk \in PieceLookups, jvm_ok \in BOOLEAN :
            \E r \in (IF lk.len < 0 THEN NewStringUTF(<<>>)
                       ELSE NewStringFromUtf8Bytes(lk.bytes, jvm_ok)) :
               TokenText(lk, r)

GetEosToken ==
    \/ /\ g_model = Null
       /\ Query("getEosToken", 0, EOS_DEFAULT)
    \/ /\ g_model # Null
       /\ \E eos \in {1, EOS_DEFAULT} : Query("getEosToken", 0, eos)

GetContextSize ==
    Query("getContextSize", 0, IF g_ctx = Null THEN 0 ELSE ctxs[g_ctx].n_ctx)

\* ------------------------------------------------------------ whisper_jni
\* inputs of the recognition controller
PCM_SCALE    == 32768
WHISPER_RATE == 16000
PcmArrays    == {<<>>, <<-32768, 32767>>}
SampleRates  == {WHISPER_RATE, 44100}
NullChars    == <<"null">>
\* languageTag and translateToEnglish of a call
LangInputs   == {<<<<"e", "s", "-", "E", "S">>, TRUE>>, <<<<"e", "n">>, FALSE>>}
ThreadCounts == {2}

\* pcm16_to_f32: out[i] = (float) pcm[i] * (1.0f / 32768.0f)
Pcm16ToF32(pcm) ==
    [i \in 1..Len(pcm) |-> [num |-> pcm[i], den |-> PCM_SCALE]]

\* langStr: "en" without characters, else the tag up to its first '-'
RECURSIVE UpToDash(_)
UpToDash(tag) ==
    IF tag = <<>> \/ tag[1] = "-" THEN <<>>
    ELSE <<tag[1]>> \o UpToDash(Tail(tag))
BaseLanguage(tag) == IF tag = NullChars THEN <<"e", "n">> ELSE UpToDash(tag)

\* whisper_full_params as both entry points fill them; callback tells
\* whether on_new_segment_cb is registered
FullParams(pcm, tag, translate, callback) ==
    [strategy |-> "greedy", n_threads |-> g_threads, translate |-> translate,
     language |-> BaseLanguage(tag), callback |-> callback,
     audio |-> Pcm16ToF32(pcm)]

\* what whisper_full does in one call: its status, the texts of the
\* segments it finalizes and, in cuts, the n_new of each segment-completion
\* notification
RECURSIVE Compositions(_)
Compositions(n) ==
    IF n = 0 THEN {<<>>}
    ELSE UNION {{<<k>> \o c : c \in Compositions(n - k)} : k \in 1..n}
SegTexts == {<<"a">>, <<"L">>, <<"T">>}
SegLists == UNION {[1..n -> SegTexts] : n \in 0..MaxSegs}
EngineRuns ==
    {[res |-> 1, segs |-> <<>>, cuts |-> <<>>]} \cup
    UNION {{[res |-> 0, segs |-> sg, cuts |-> c] : c \in Compositions(Len(sg))} :
              sg \in SegLists}

\* the bytes of segments first..last appended to acc
RECURSIVE AppendSegs(_, _, _, _)
AppendSegs(acc, segs, first, last) ==
    IF first > last THEN acc
    ELSE AppendSegs(acc \o segs[first], segs, first + 1, last)
AllText(segs) == AppendSegs(<<>>, segs, 1, Len(segs))

\* variant: every notification appends all segments again
Start_FromZero(n_segments, n_new) == 0

\* "const int start = std::max(0, n_segments - n_new);"
Start(n_segments, n_new) ==
    IF n_segments - n_new > 0 THEN n_segments - n_new ELSE 0

\* on_new_segment_cb over the notifications j.. of the run: handed are the
\* accumulated bytes given to NewStringUTF, sink the strings passed to
\* onPartial; a notification whose conversion aborts ends the process
RECURSIVE Notify(_, _, _, _, _, _)
Notify(eng, j, n_segments, acc, checked, log) ==
    IF j > Len(eng.cuts) THEN log
    ELSE LET n_new == eng.cuts[j]
             n_now == n_segments + n_new
             start == Start(n_now, n_new)
             acc2  == AppendSegs(acc, eng.segs, start + 1, n_now)
             jtxt  == NewStringUTFWith(acc2, checked)
         IN IF jtxt = Abort
            THEN [log EXCEPT !.handed = Append(@, acc2), !.aborted = TRUE]
            ELSE Notify(eng, j + 1, n_now, acc2, checked,
                        [log EXCEPT !.handed = Append(@, acc2),
                                    !.sink = Append(@, jtxt)])
NoSink == [handed |-> <<>>, sink |-> <<>>, aborted |-> FALSE]

\* the value after whisper_full returned: nullptr for a non-zero status,
\* else NewStringUTF of the concatenated segment texts
FinalText(eng, checked) ==
    IF eng.res # 0 THEN NullRef
    ELSE NewStringUTFWith(AllText(eng.segs), checked)

\* the record of a call into the recognition controller: ret is the
\* jboolean and str the jstring it returns
WCall(name, ret) ==
    [StringCall(name) EXCEPT !.pre = g_wctx, !.ret = ret]

\* a call into the recognition controller: the text-generation controller
\* is left alone
Whisper(rec) ==
    /\ ~aborted
    /\ pc = Idle
    /\ wop' = rec
    /\ op' = [name |-> "recognition", arg |-> 0, ret |-> 0]
    /\ pre' = NoPre
    /\ freed' = <<>>
    /\ d' = NoD
    /\ Forget
    /\ UNCHANGED <<globals, heap, pc, badFree, track, mode, has_whisper,
                   check_jni, last_cache>>

\* isAvailable
WIsAvailable ==
    /\ Whisper(WCall("isAvailable",
                     IF has_whisper THEN JNI_TRUE ELSE JNI_FALSE))
    /\ UNCHANGED <<g_wctx, wctxs, g_threads, wlast, aborted>>

\* variant: the old context is kept when a new one is loaded
WTeardown_Keep == [freed |-> <<>>, live |-> wctxs]

\* "if (g_wctx != nullptr) { whisper_free(g_wctx); g_wctx = nullptr; }"
WTeardown ==
    IF g_wctx # Null THEN [freed |-> <<g_wctx>>, live |-> wctxs \ {g_wctx}]
                     ELSE [freed |-> <<>>, live |-> wctxs]

\* loadModel: JNI_FALSE without the engine; else the old context is freed,
\* g_threads is set and whisper_init_from_file gives a context or nullptr
WLoadModel(threads) ==
    \/ /\ ~has_whisper
       /\ Whisper(WCall("loadModel", JNI_FALSE))
       /\ wlast' = "load_failed"
       /\ UNCHANGED <<g_wctx, wctxs, g_threads, aborted>>
    \/ /\ has_whisper
       /\ LET td == WTeardown IN
          \E ok \in BOOLEAN :
            /\ ok => CanAlloc(td.live)
            /\ g_wctx' = IF ok THEN NewHandle(td.live) ELSE Null
            /\ wctxs' = IF ok THEN td.live \cup {NewHandle(td.live)} ELSE td.live
            /\ g_threads' = threads
            /\ wlast' = IF ok THEN "load_ok" ELSE "load_failed"
            /\ Whisper([WCall("loadModel", IF ok THEN JNI_TRUE ELSE JNI_FALSE)
                          EXCEPT !.freed = td.freed,
                                 !.bad = (g_wctx # Null /\ g_wctx \notin wctxs)])
            /\ UNCHANGED aborted

\* unloadModel
WUnloadModel ==
    /\ g_wctx' = Null
    /\ wctxs' = IF has_whisper /\ g_wctx # Null THEN wctxs \ {g_wctx} ELSE wctxs
    /\ wlast' = "unload"
    /\ Whisper([WCall("unloadModel", 0)
                  EXCEPT !.freed = IF has_whisper /\ g_wctx # Null
                                   THEN <<g_wctx>> ELSE <<>>,
                         !.bad = (has_whisper /\ g_wctx # Null
                                  /\ g_wctx \notin wctxs)])
    /\ UNCHANGED <<g_threads, aborted>>

\* isLoaded
WIsLoaded ==
    /\ Whisper(WCall("isLoaded",
                     IF g_wctx # Null THEN JNI_TRUE ELSE JNI_FALSE))
    /\ UNCHANGED <<g_wctx, wctxs, g_threads, wlast, aborted>>

\* the returns both entry points make before the engine is called: nullptr
\* without the engine or a context, "" for an empty array, nullptr for a
\* sample rate other than 16000; no value when the call goes on
EarlyReturn(pcm, rate) ==
    IF ~has_whisper \/ g_wctx = Null THEN {NullRef}
    ELSE IF Len(pcm) <= 0 THEN NewStringUTF(<<>>)
    ELSE IF rate # WHISPER_RATE THEN {NullRef}
    ELSE {}

\* the value transcribePcm16 returns for an engine run
TranscribeOutcome(pcm, rate, eng, checked) ==
    IF EarlyReturn(pcm, rate) # {}
    THEN CHOOSE r \in EarlyReturn(pcm, rate) : TRUE
    ELSE FinalText(eng, checked)

\* transcribePcm16
Transcribe(pcm, rate, tag, translate, eng) ==
    LET early == EarlyReturn(pcm, rate)
        checked == check_jni
        call  == [WCall("transcribe", 0)
                    EXCEPT !.pcm = pcm, !.rate = rate, !.tag = tag,
                           !.translate = translate, !.checked = checked]
    IN  /\ (early # {}) => eng = NoEngine
        /\ LET ret == TranscribeOutcome(pcm, rate, eng, checked) IN
            /\ Whisper(IF early # {}
                       THEN [call EXCEPT !.str = ret]
                       ELSE [call EXCEPT !.str = ret, !.eng = eng,
                               !.invoked = FullParams(pcm, tag, translate, FALSE)])
            /\ aborted' = (ret = Abort)
        /\ UNCHANGED <<g_wctx, wctxs, g_threads, wlast>>

\* "if (callbackObj != nullptr)": on_new_segment_cb is registered
HookRegistered(callback) == callback

\* transcribePcm16Streaming; callback tells whether callbackObj is given
TranscribeStreaming(pcm, rate, tag, translate, callback, eng) ==
    LET early == EarlyReturn(pcm, rate)
        checked == check_jni
        call  == [WCall("transcribeStreaming", 0)
                    EXCEPT !.pcm = pcm, !.rate = rate, !.tag = tag,
                           !.translate = translate, !.callback = callback,
                           !.checked = checked]
    IN  /\ (early # {}) => eng = NoEngine
        /\ IF early # {}
           THEN /\ Whisper([call EXCEPT !.str = CHOOSE r \in early : TRUE])
                /\ aborted' = FALSE
           ELSE LET hook == HookRegistered(callback)
                    log  == IF hook THEN Notify(eng, 1, 0, <<>>, checked, NoSink)
                                    ELSE NoSink
                    ret  == IF log.aborted THEN Abort
                                           ELSE FinalText(eng, checked)
                IN /\ Whisper([call EXCEPT
                                 !.str = ret, !.eng = eng,
                                 !.invoked = FullParams(pcm, tag, translate, hook),
                                 !.handed = log.handed, !.sink = log.sink])
                   /\ aborted' = (ret = Abort)
        /\ UNCHANGED <<g_wctx, wctxs, g_threads, wlast>>

\* -------------------------------------------------------------------- Next
Next ==
    \/ \E cs \in CtxSizes : LoadEnter(cs)
    \/ LoadTeardownStep
    \/ LoadTeardownDone
    \/ LoadWeights
    \/ LoadCreateCtx
    \/ LoadBuildChain
    \/ UnloadEnter
    \/ UnloadStep
    \/ UnloadDone
    \/ \E t \in TokenSeqs : DecodeEnter(t)
    \/ DecodeChunk
    \/ DecodeDone
    \/ SampleAbsent
    \/ Sample
    \/ SampleNoLogits
    \/ \E r \in ResetInputs : ResetSampler(r[1], r[2], r[3])
    \/ ClearContext
    \/ InitBackend
    \/ IsLoaded
    \/ Tokenize
    \/ \E t \in {1} : TokenToString(t)
    \/ GetEosToken
    \/ GetContextSize

Spec == Init /\ [][Next]_vars

\* The calls that create, replace and destroy the sampler chain, with
\* resetSampler taking every combination of a non-positive and a positive
\* temperature, a topP below, at and above 1.0, and a topK below, at and
\* above 0 (temperature and topP in tenths).
ChainInputs == {-1, 0, TEMP_DEFAULT} \X {TOP_P_DEFAULT, TOP_P_ONE, TOP_P_ONE + 1}
               \X {-1, 0, TOP_K_DEFAULT}

NextChain ==
    \/ \E cs \in CtxSizes : LoadEnter(cs)
    \/ LoadTeardownStep
    \/ LoadTeardownDone
    \/ LoadWeights
    \/ LoadCreateCtx
    \/ LoadBuildChain
    \/ UnloadEnter
    \/ UnloadStep
    \/ UnloadDone
    \/ \E r \in ChainInputs : ResetSampler(r[1], r[2], r[3])

SpecChain == Init /\ [][NextChain]_vars

\* The same program with the episode logs kept: the decode and the sample
\* made right after a successful loadModel are compared with those made
\* right after a clearContext.  Its calls are the ones that change the
\* context, the cache position or the sampler chain, and sample() is called
\* when the context holds logits.
InitEq == InitState /\ track = TRUE /\ mode = "clear"
          /\ InitWhisper /\ has_whisper = TRUE
           /\ check_jni = TRUE

NextEq ==
    \/ \E cs \in CtxSizes : LoadEnter(cs)
    \/ LoadTeardownStep
    \/ LoadTeardownDone
    \/ LoadWeights
    \/ LoadCreateCtx
    \/ LoadBuildChain
    \/ \E t \in TokenSeqs : DecodeEnter(t)
    \/ DecodeChunk
    \/ DecodeDone
    \/ Sample
    \/ \E r \in ResetInputs : ResetSampler(r[1], r[2], r[3])
    \/ ClearContext

\* The recognition controller, built with and without the engine.
InitW == InitState /\ track = FALSE /\ mode = "none"
         /\ InitWhisper /\ has_whisper \in BOOLEAN /\ check_jni \in BOOLEAN

NextW ==
    \/ WIsAvailable
    \/ \E t \in ThreadCounts : WLoadModel(t)
    \/ WUnloadModel
    \/ WIsLoaded
    \/ \E pcm \in PcmArrays, rate \in SampleRates, lang \in LangInputs,
          eng \in EngineRuns :
            Transcribe(pcm, rate, lang[1], lang[2], eng)
    \/ \E pcm \in PcmArrays, rate \in SampleRates, lang \in LangInputs,
          callback \in BOOLEAN, eng \in EngineRuns :
            TranscribeStreaming(pcm, rate, lang[1], lang[2], callback, eng)

SpecW == InitW /\ [][NextW]_vars

SpecEq == InitEq /\ [][NextEq]_vars

\* The calls that create, fill, empty and destroy the cache and the sampler
\* chain, and sample(), with the last call that affected the cache kept.
InitLogits == InitState /\ track = FALSE /\ mode = "logits"
              /\ InitWhisper /\ has_whisper = TRUE
              /\ check_jni = TRUE

NextLogits ==
    \/ \E cs \in CtxSizes : LoadEnter(cs)
    \/ LoadTeardownStep
    \/ LoadTeardownDone
    \/ LoadWeights
    \/ LoadCreateCtx
    \/ LoadBuildChain
    \/ UnloadEnter
    \/ UnloadStep
    \/ UnloadDone
    \/ \E t \in TokenSeqs : DecodeEnter(t)
    \/ DecodeChunk
    \/ DecodeDone
    \/ SampleAbsent
    \/ Sample
    \/ SampleNoLogits
    \/ \E r \in ResetInputs : ResetSampler(r[1], r[2], r[3])
    \/ ClearContext

SpecLogits == InitLogits /\ [][NextLogits]_vars

\* The same calls with the logs following the episodes that start at a
\* resetSampler with a temperature of 0 or less: the decode and the sample
\* made after it are compared with those made after the same resetSampler
\* in the run that starts at the following reload.
InitDet == InitState /\ track = TRUE /\ mode = "greedy"
           /\ InitWhisper /\ has_whisper = TRUE
           /\ check_jni = TRUE

NextDet ==
    \/ \E cs \in CtxSizes : LoadEnter(cs)
    \/ LoadTeardownStep
    \/ LoadTeardownDone
    \/ LoadWeights
    \/ LoadCreateCtx
    \/ LoadBuildChain
    \/ \E t \in TokenSeqs : DecodeEnter(t)
    \/ DecodeChunk
    \/ DecodeDone
    \/ Sample
    \/ \E r \in ResetInputs : ResetSampler(r[1], r[2], r[3])
    \/ ClearContext

SpecDet == InitDet /\ [][NextDet]_vars

\* The same calls with the log following a run of decode calls that all
\* return 0, sample calls in between included.
InitRun == InitState /\ track = TRUE /\ mode = "split"
           /\ InitWhisper /\ has_whisper = TRUE
           /\ check_jni = TRUE

NextRun ==
    \/ \E cs \in CtxSizes : LoadEnter(cs)
    \/ LoadTeardownStep
    \/ LoadTeardownDone
    \/ LoadWeights
    \/ LoadCreateCtx
    \/ LoadBuildChain
    \/ \E t \in TokenSeqs : DecodeEnter(t)
    \/ DecodeChunk
    \/ DecodeDone
    \/ Sample
    \/ \E r \in ResetInputs : ResetSampler(r[1], r[2], r[3])
    \/ ClearContext

SpecRun == InitRun /\ [][NextRun]_vars

\* =================================================================== claims
CeilDiv(n, b) == (n + b - 1) \div b
Chunks        == [k \in 1..Len(d.batches) |->
                    [i \in 1..Len(d.batches[k]) |-> d.batches[k][i].token]]
Submitted     == Flatten(Chunks)
\* a decode call that found a context (n_batch is 0 in every other call)
InDecode       == op.name = "decode" /\ d.n_batch > 0
DecodeReturned == InDecode /\ pc = Idle
AllAccepted    == \A k \in 1..Len(d.statuses) : d.statuses[k] = 0
DecodeFailed   == DecodeReturned /\ d.statuses # <<>>
                  /\ d.statuses[Len(d.statuses)] # 0

\* C1: a decode call on a loaded Context whose chunk submissions all return
\* 0 submits exactly ceil(n/B) chunks, each of 1..B tokens, that together
\* are the input in input order, returns 0, and leaves g_n_past at its value
\* before the call plus n.
C1_ChunkedDecode ==
    (DecodeReturned /\ AllAccepted) =>
        /\ Len(d.batches) = CeilDiv(Len(d.tokens), d.n_batch)
        /\ Len(d.statuses) = Len(d.batches)
        /\ \A k \in 1..Len(d.batches) : Len(d.batches[k]) \in 1..d.n_batch
        /\ Submitted = d.tokens
        /\ op.ret = 0
        /\ g_n_past = d.past0 + Len(d.tokens)

\* C1 witness: an accepted call of several chunks whose last chunk is partial
C1_Witness ==
    /\ DecodeReturned /\ AllAccepted
    /\ Len(d.batches) >= 2
    /\ Len(d.batches[Len(d.batches)]) < d.n_batch

\* C2: when the engine returns a non-zero status for the k-th chunk, the call
\* submits no further chunk, returns that status, and g_n_past is its value
\* before the call plus the sizes of the k-1 chunks accepted before it.
C2_AbortOnFailure ==
    (InDecode /\ d.statuses # <<>>) =>
        LET k == Len(d.statuses) IN
        /\ Len(d.batches) = k
        /\ \A j \in 1..(k - 1) : d.statuses[j] = 0
        /\ d.statuses[k] # 0 =>
              /\ pc = Idle
              /\ op.ret = d.statuses[k]
              /\ g_n_past = d.past0
                            + SumSeq([j \in 1..(k - 1) |-> Len(d.batches[j])])

\* C2 witness: the second chunk of a call was rejected after the first one
\* had advanced the position
C2_Witness ==
    /\ DecodeFailed
    /\ Len(d.statuses) = 2
    /\ g_n_past > d.past0
    /\ Len(Submitted) < Len(d.tokens)

\* the (chunk, index) pairs of the call whose logits flag is set
Flagged == {<<k, i>> \in (1..Len(d.batches)) \X (1..MaxTokens) :
                i <= Len(d.batches[k]) /\ d.batches[k][i].logits # 0}
FinalSubmitted == d.tokens # <<>> /\ Len(Submitted) = Len(d.tokens)

\* C3 as stated: every decode call on a loaded Context, the empty one
\* included, requests logits for exactly one position.
C3_ExactlyOneLogits ==
    DecodeReturned => Cardinality(Flagged) = 1

\* C3 amended: a decode call requests logits for at most one position; it is
\* exactly one, the last token of the last chunk, when the call submits its
\* final chunk, and none when the input is empty or the call was aborted
\* before its final chunk.  Every other position has its flag cleared.
C3_LogitsOnlyAtEnd ==
    InDecode =>
        Flagged = IF FinalSubmitted
                  THEN {<<Len(d.batches), Len(d.batches[Len(d.batches)])>>}
                  ELSE {}

\* C3 witness: a call of two full chunks (the length is a multiple of the
\* batch width); the last token of the first chunk is not flagged
C3_Witness ==
    /\ DecodeReturned /\ AllAccepted
    /\ Len(d.batches) = 2
    /\ Len(d.tokens) = 2 * d.n_batch
    /\ Cardinality(Flagged) = 1

LoadReturned(r) == pc = Idle /\ op.name = "loadModel" /\ op.ret = r

\* C5: when loadModel returns success, Model, Context and SamplerChain are
\* live handles, isLoaded() is true, g_n_past is 0 and the chain is top-k(40),
\* top-p(0.9, 1), temperature(0.7), draw(42), whatever chain existed before.
C5_LoadSuccessState ==
    LoadReturned(JNI_TRUE) =>
        /\ g_model \in models
        /\ g_ctx \in DOMAIN ctxs
        /\ g_sampler \in DOMAIN samplers
        /\ ctxs[g_ctx].model = g_model
        /\ ctxs[g_ctx].n_ctx = op.arg
        /\ ctxs[g_ctx].cells = 0
        /\ IsLoadedValue = JNI_TRUE
        /\ g_n_past = 0
        /\ samplers[g_sampler].chain =
              << <<"top_k", 40>>, <<"top_p", 9, 1>>, <<"temp", 7>>, <<"dist", 42>> >>
        /\ samplers[g_sampler].draws = 0

\* C5 witness: a successful load on a controller that held no model but a
\* chain installed by resetSampler
C5_Witness ==
    /\ LoadReturned(JNI_TRUE)
    /\ pre.model = Null /\ pre.sampler # Null

\* C6: when loadModel returns failure, Model, Context and SamplerChain are
\* all null, g_n_past is 0 and isLoaded() is false.
C6_LoadFailureState ==
    LoadReturned(JNI_FALSE) =>
        /\ g_model = Null /\ g_ctx = Null /\ g_sampler = Null
        /\ g_n_past = 0
        /\ IsLoadedValue = JNI_FALSE

\* C7: at most one Model handle and one Context handle are live; between
\* calls the live ones are those the controller references; a reload has
\* freed the old Context and Model when it asks the engine for new ones.
C7_SinglePair ==
    /\ Cardinality(models) <= 1
    /\ Cardinality(DOMAIN ctxs) <= 1
    /\ pc = Idle => /\ models = {g_model} \ {Null}
                    /\ DOMAIN ctxs = {g_ctx} \ {Null}
    /\ pc.at = "ld_weights" => models = {} /\ DOMAIN ctxs = {}

\* C7 witness: a failed reload of a loaded controller
C7_Witness ==
    /\ LoadReturned(JNI_FALSE)
    /\ pre.model # Null /\ pre.ctx # Null
    /\ Len(freed) >= 3

Rank(kind) == CASE kind = "sampler" -> 1 [] kind = "ctx" -> 2 [] kind = "model" -> 3

\* C8: at every step a live Context has a live parent Model, and a teardown
\* frees SamplerChain, then Context, then Model.
C8_ContextInsideModel ==
    /\ \A c \in DOMAIN ctxs : ctxs[c].model \in models
    /\ (op.name = "unloadModel" \/ pc.at \in {"ld_teardown", "ld_weights"}) =>
          \A i, j \in 1..Len(freed) :
              i < j => Rank(freed[i][1]) < Rank(freed[j][1])

\* C8 witness: inside unloadModel, the context is freed and its model is
\* still live
C8_Witness ==
    /\ pc.at = "unload"
    /\ Len(freed) = 2 /\ freed[2][1] = "ctx"
    /\ g_model \in models

NonNull(seq) == SelectSeq(seq, LAMBDA e : e[2] # Null)

\* C9: unloadModel leaves Model, Context, SamplerChain null and g_n_past 0,
\* frees exactly the handles that were non-null, each once and each live,
\* and when nothing was loaded it frees nothing and changes nothing.
C9_UnloadTotal ==
    /\ ~badFree
    /\ (pc = Idle /\ op.name = "unloadModel") =>
          /\ g_model = Null /\ g_ctx = Null /\ g_sampler = Null
          /\ g_n_past = 0
          /\ models = {} /\ DOMAIN ctxs = {}
          /\ freed = NonNull(<< <<"sampler", pre.sampler>>, <<"ctx", pre.ctx>>,
                                <<"model", pre.model>> >>)
          /\ (pre.model = Null /\ pre.ctx = Null /\ pre.sampler = Null) =>
                (freed = <<>> /\ pre.n_past = g_n_past)

\* C9 witness: unloadModel on a loaded controller freed all three handles
C9_Witness ==
    /\ pc = Idle /\ op.name = "unloadModel"
    /\ Len(freed) = 3
    /\ pre.n_past > 0

ClearReturned == pc = Idle /\ op.name = "clearContext" /\ pre.ctx # Null
\* both logs are set: decode(T) right after clearContext, then decode(T)
\* right after a reload with the same context parameters
Compared      == cur.set /\ ref.set /\ cur.statuses = ref.statuses
BothSampled   == Compared /\ cur.sample # 0 /\ ref.sample # 0
                 /\ cur.tokens # <<>> /\ cur.ret = 0

ClearResets ==
    ClearReturned =>
        /\ g_n_past = 0
        /\ ctxs[g_ctx].cells = 0 /\ ctxs[g_ctx].digest = 0
        /\ g_model = pre.model /\ g_ctx = pre.ctx /\ g_sampler = pre.sampler
        /\ g_model \in models /\ g_sampler \in DOMAIN samplers

SameDecode ==
    Compared => (cur.batches = ref.batches /\ cur.ret = ref.ret)

CacheOps == {"clearContext", "unloadModel", "loadModel"}
FrameOps == {"tokenize", "sample", "tokenToString", "getEosToken",
             "getContextSize", "isLoaded", "resetSampler"}
\* the step is an iteration of the decode loop whose chunk the engine accepted
AcceptedChunk ==
    /\ pc.at = "decode_loop"
    /\ Len(d'.statuses) = Len(d.statuses) + 1
    /\ d'.statuses[Len(d'.statuses)] = 0
    /\ g_n_past' = g_n_past + Len(d'.batches[Len(d'.batches)])
PositionStep ==
    /\ g_n_past' # g_n_past =>
          \/ AcceptedChunk
          \/ g_n_past' = 0 /\ op'.name \in CacheOps
    /\ (pc = Idle /\ op'.name \in FrameOps) =>
          (g_n_past' = g_n_past /\ g_ctx' = g_ctx)

\* C11: g_n_past changes only by an accepted decode chunk, which adds the
\* chunk's token count, and by clearContext, unloadModel and loadModel,
\* which leave it 0; tokenize, sample, tokenToString, getEosToken,
\* getContextSize, isLoaded and resetSampler leave g_n_past and g_ctx as
\* they are, so g_n_past decreases only in a reset.
C11_PositionFrame ==
    /\ []((pc = Idle /\ op.name \in CacheOps) => g_n_past = 0)
    /\ [][PositionStep]_vars

\* C11 witness: resetSampler returned on a controller whose cache position
\* had advanced
C11_Witness ==
    /\ pc = Idle /\ op.name = "resetSampler"
    /\ g_ctx # Null /\ g_n_past > 0

\* ------------------------------------------------------------------- C12
ResetReturned == pc = Idle /\ op.name = "resetSampler"
\* the chain the claim describes for (temperature, topP, topK)
ClaimedChain(t, p, k) ==
    LET filters == (IF k > 0 THEN << <<"top_k", k>> >> ELSE <<>>)
                   \o (IF p < TOP_P_ONE THEN << <<"top_p", p, 1>> >> ELSE <<>>)
        final   == IF t > 0 THEN << <<"temp", t>>, <<"dist", 42>> >>
                            ELSE << <<"greedy">> >>
    IN filters \o final

\* C12: the chain resetSampler installs is [top-k(topK)] iff topK > 0, then
\* [top-p(topP, min-keep 1)] iff topP < 1.0, then [temperature, draw(seed
\* 42)] if temperature > 0 and [greedy] otherwise, and nothing else: no
\* stage of the chain it replaces remains.
C12_ChainPerParameters ==
    ResetReturned =>
        /\ g_sampler \in DOMAIN samplers
        /\ samplers[g_sampler].chain
              = ClaimedChain(op.arg[1], op.arg[2], op.arg[3])
        /\ samplers[g_sampler].draws = 0
        /\ (op.arg[1] > 0 /\ op.arg[2] = TOP_P_ONE /\ op.arg[3] = 0) =>
              samplers[g_sampler].chain
                = << <<"temp", op.arg[1]>>, <<"dist", 42>> >>

\* C12 witness: resetSampler(t > 0, topP = 1.0, topK = 0) replaced the
\* four-stage default chain of a loaded controller
C12_Witness ==
    /\ ResetReturned
    /\ g_model # Null
    /\ op.arg = <<TEMP_DEFAULT, TOP_P_ONE, 0>>
    /\ freed # <<>>
    /\ Len(samplers[g_sampler].chain) = 2

\* ------------------------------------------------------------------- C14
Returned(name) == pc = Idle /\ op.name = name
\* a call made while the handle it needs is absent changes no global
NotLoadedStep ==
    (/\ pc = Idle
     /\ \/ g_ctx = Null /\ op'.name \in {"decode", "getContextSize"}
        \/ (g_ctx = Null \/ g_sampler = Null) /\ op'.name = "sample"
        \/ g_model = Null
           /\ op'.name \in {"tokenize", "tokenToString", "getEosToken"})
    => /\ UNCHANGED <<g_model, g_ctx, g_sampler, g_n_past>>
       /\ UNCHANGED <<models, ctxs, samplers>>
       /\ pc' = Idle /\ d'.batches = <<>>

NotLoadedReturns ==
    /\ (Returned("decode") /\ g_ctx = Null) =>
          (op.ret = NOT_LOADED /\ op.ret < 0 /\ d.batches = <<>>)
    /\ (Returned("sample") /\ (g_ctx = Null \/ g_sampler = Null)) =>
          op.ret = -1
    /\ (Returned("tokenize") /\ g_model = Null) => op.ret < 0
    /\ (Returned("tokenToString") /\ g_model = Null) => wop.str = Text(<<>>)
    /\ (Returned("getEosToken") /\ g_model = Null) => op.ret = 2
    /\ (Returned("getContextSize") /\ g_model = Null) => op.ret = 0

\* the status of a decode made without a context is one no decode made
\* with a context returns
DistinctStatus ==
    (Returned("decode") /\ g_ctx # Null) => op.ret # NOT_LOADED

\* C14: without a context decode submits nothing and returns a negative
\* status that no decode with a context returns; without a context or a
\* sampler chain sample returns -1 and the engine is not called; without a
\* model tokenize fails, tokenToString returns "", getEosToken returns 2
\* and getContextSize returns 0; none of these calls changes g_model,
\* g_ctx, g_sampler or g_n_past.
C14_NotLoadedOutcomes ==
    /\ [](NotLoadedReturns /\ DistinctStatus)
    /\ [][NotLoadedStep]_vars

\* the outcomes of C14 without the distinctness of the decode status
C14_NotLoadedRest ==
    /\ []NotLoadedReturns
    /\ [][NotLoadedStep]_vars

\* ------------------------------------------------------------------- C13
\* two runs are compared: both loaded the same model, called resetSampler
\* with a temperature of 0 or less and then made the same decode call with
\* the same engine statuses, and the same sample call
GreedyRuns ==
    /\ mode = "greedy"
    /\ cur.set /\ ref.set /\ cur.statuses = ref.statuses
    /\ cur.tokens # <<>> /\ cur.ret = 0
    /\ cur.sample # 0 /\ ref.sample # 0
    /\ ~IsStochastic(cur.chain) /\ ~IsStochastic(ref.chain)
\* the cache position at which the logged decode started
StartPos(log) == log.batches[1][1].pos

WTranscribeOps == {"transcribe", "transcribeStreaming"}
Transcribed    == wop.name \in WTranscribeOps
EngineInvoked  == Transcribed /\ wop.invoked # NoParams

\* C15: a transcription call on a loaded controller with a sample rate
\* other than 16000 returns failure, invokes no engine and passes nothing
\* to the sink, whatever the array (the empty one included)
C15_WrongRateFails ==
    (Transcribed /\ wop.pre # Null /\ wop.rate # WHISPER_RATE) =>
        /\ wop.str = NullRef
        /\ wop.invoked = NoParams
        /\ wop.sink = <<>>

\* the same for a non-empty array only
C15_WrongRateFailsNonEmpty ==
    (Transcribed /\ wop.pre # Null /\ wop.rate # WHISPER_RATE
                 /\ Len(wop.pcm) > 0) =>
        /\ wop.str = NullRef
        /\ wop.invoked = NoParams
        /\ wop.sink = <<>>

\* a streaming call that ran the engine with a sink
Streamed == wop.name = "transcribeStreaming" /\ wop.callback /\ EngineInvoked

\* the segments finalized up to the k-th notification
SegsAt(k) == SumSeq(SubSeq(wop.eng.cuts, 1, k))
BytesAt(k) == AppendSegs(<<>>, wop.eng.segs, 1, SegsAt(k))

\* the texts of the first n segments, each as a string, concatenated
RECURSIVE TextsUpTo(_, _)
TextsUpTo(segs, n) ==
    IF n = 0 THEN <<>>
    ELSE TextsUpTo(segs, n - 1) \o StringFromBytes(segs[n])

IsPrefix(a, b) == Len(a) <= Len(b) /\ SubSeq(b, 1, Len(a)) = a

LastEqualsReturn ==
    (wop.str.kind = "text" /\ wop.sink # <<>>) =>
        wop.sink[Len(wop.sink)] = wop.str

C17_StreamingEqualsTranscribe ==
    wop.name = "transcribeStreaming" =>
        /\ wop.str = TranscribeOutcome(wop.pcm, wop.rate, wop.eng, wop.checked)
        /\ ~wop.callback =>
             /\ wop.sink = <<>>
             /\ wop.invoked =
                  IF EarlyReturn(wop.pcm, wop.rate) # {} THEN NoParams
                  ELSE FullParams(wop.pcm, wop.tag, wop.translate, FALSE)

\* the same for calls without a sink, and for calls with a sink whose
\* accumulated bytes are well-formed at every notification
C17_SameWithoutSink ==
    (wop.name = "transcribeStreaming"
       /\ (wop.callback => \A k \in 1..Len(wop.eng.cuts) : WellFormed(BytesAt(k)))) =>
        /\ wop.str = TranscribeOutcome(wop.pcm, wop.rate, wop.eng, wop.checked)
        /\ ~wop.callback =>
             /\ wop.sink = <<>>
             /\ wop.invoked =
                  IF EarlyReturn(wop.pcm, wop.rate) # {} THEN NoParams
                  ELSE FullParams(wop.pcm, wop.tag, wop.translate, FALSE)

\* C18: the controller is Loaded exactly when its last load or unload was
\* a successful load; a load frees the context it finds exactly once and
\* leaves Unloaded when it fails; the engine runs only when Loaded and a
\* transcription call in Unloaded returns failure
C18_LoadedStateMachine ==
    /\ (g_wctx # Null) <=> (wlast = "load_ok")
    /\ wctxs = IF g_wctx # Null THEN {g_wctx} ELSE {}
    /\ (wop.name = "loadModel" /\ wop.pre # Null) =>
          (wop.freed = <<wop.pre>> /\ ~wop.bad)
    /\ (wop.name = "loadModel" /\ wop.pre = Null) => wop.freed = <<>>
    /\ (wop.name = "loadModel" /\ wop.ret = JNI_FALSE) => g_wctx = Null
    /\ (wop.name = "unloadModel") =>
          (g_wctx = Null /\ ~wop.bad
           /\ wop.freed = IF wop.pre # Null THEN <<wop.pre>> ELSE <<>>)
    /\ EngineInvoked => wop.pre # Null
    /\ (Transcribed /\ wop.pre = Null) =>
          (wop.str = NullRef /\ wop.invoked = NoParams /\ wop.sink = <<>>)

\* C18 witness: a load that found a context failed
C18_Witness ==
    /\ wop.name = "loadModel" /\ wop.pre # Null /\ wop.ret = JNI_FALSE
    /\ wlast = "load_failed"

\* C19: every string built from bytes of a model is the tolerant
\* conversion of those bytes: the returned transcription, each string
\* passed to the sink, and the text of a token, which is empty when the
\* piece lookup returns a negative length
C19_TolerantConversion ==
    /\ (EngineInvoked /\ wop.eng.res = 0) =>
          wop.str = Text(StringFromBytes(AllText(wop.eng.segs)))
    /\ EngineInvoked =>
          /\ Len(wop.sink) = Len(wop.handed)
          /\ \A k \in 1..Len(wop.sink) :
               wop.sink[k] = Text(StringFromBytes(wop.handed[k]))
    /\ (wop.name = "tokenToString") =>
          /\ wop.str.kind = "text"
          /\ wop.str.text \in {<<>>, StringFromBytes(wop.handed[1])}
          /\ wop.len < 0 => wop.str.text = <<>>

\* the part of C19 about the text of a token
C19_TokenToString ==
    (wop.name = "tokenToString") =>
        /\ wop.str.kind = "text"
        /\ wop.str.text \in {<<>>, StringFromBytes(wop.handed[1])}
        /\ wop.len < 0 => wop.str.text = <<>>

\* ------------------------------------------------------------------- C21
\* sample() has returned what the engine's sampler gave it
SampleReached == pc = Idle /\ op.name = "sample" /\ g_ctx # Null /\ g_sampler # Null

\* C21: whenever sample() reaches the engine's sampler, the last call that
\* affected the cache was a decode that returned 0 for a non-empty token
\* sequence, and the context holds the logits of its last position
C21_SampleHasLogits ==
    SampleReached =>
        /\ last_cache = "decode_ok"
        /\ ctxs[g_ctx].logits # NoLogits

\* the guard sample() does have: it reaches the sampler exactly when the
\* context and the sampler chain are present, and after a decode that
\* returned 0 for a non-empty sequence, with no other call on the cache in
\* between, the context holds logits
C21_SampleGuard ==
    /\ (pc = Idle /\ op.name = "sample") =>
          ((op.ret = NOT_LOADED) <=> (g_ctx = Null \/ g_sampler = Null))
    /\ (SampleReached /\ last_cache = "decode_ok") =>
          ctxs[g_ctx].logits # NoLogits

\* ------------------------------------------------------------------- C22
\* C22: between calls at most one sampler chain is live, it is the one
\* g_sampler refers to, no chain was freed twice or left behind when it was
\* replaced, and a chain exists only while a model is loaded
C22_SamplerAccounting ==
    pc = Idle =>
        /\ Cardinality(DOMAIN samplers) <= 1
        /\ DOMAIN samplers = IF g_sampler # Null THEN {g_sampler} ELSE {}
        /\ ~badFree
        /\ g_sampler # Null => g_model # Null

\* the part of C22 that holds: the chain g_sampler refers to is live, no
\* free is handed a handle that is not live, and a loaded model has a chain
C22_SamplerReferenced ==
    pc = Idle =>
        /\ g_sampler # Null => g_sampler \in DOMAIN samplers
        /\ ~badFree
        /\ g_model # Null => g_sampler # Null

\* ------------------------------------------------------------------- C20
\* every token the run has submitted, in order: the batches of the calls
\* that returned and those of the call in progress that were accepted
RunBatches ==
    IF pc.at = "decode_loop" THEN cur.batches \o d.batches ELSE cur.batches
RunSubmitted == Flatten(RunBatches)
InRun == mode = "split" /\ cur.set /\ pc.at \in {"idle", "decode_loop"}

\* C20: from cache position P at the start of a run of successful decode
\* calls, the k-th token (0-based) of the concatenated input is submitted
\* with position P + k and sequence id 0, however the input is divided
\* into calls and chunks; between calls g_n_past is P plus the input
\* length, and logits are requested only for the last token of a call.
C20_SplitTransparent ==
    InRun =>
        /\ Len(RunSubmitted) <= Len(cur.tokens)
        /\ \A k \in 1..Len(RunSubmitted) :
              /\ RunSubmitted[k].token = cur.tokens[k]
              /\ RunSubmitted[k].pos = cur.past0 + (k - 1)
              /\ RunSubmitted[k].seq_id = 0
              /\ RunSubmitted[k].logits # 0 =>
                    \/ \E j \in 1..Len(cur.ends) : cur.ends[j] = k
                    \/ pc.at = "decode_loop" /\ k = Len(cur.tokens)
        /\ g_n_past = cur.past0 + Len(RunSubmitted)
        /\ pc = Idle => Len(RunSubmitted) = Len(cur.tokens)

\* C20 witness: a run of two calls with input, one of them of several
\* chunks, has returned
C20_Witness ==
    /\ InRun /\ pc = Idle
    /\ Len(cur.ends) = 2 /\ cur.ends[1] > 0 /\ cur.ends[2] > cur.ends[1]
    /\ Len(cur.batches) = 3

====
